---- MODULE Spec2Model ----
(***************************************************************************)
(* The analytics pipeline of src/advanced_analytics.py: load the merged    *)
(* table, personal baselines, anomaly detection, readiness forecasting,    *)
(* save.                                                                   *)
(*                                                                         *)
(* Numbers.  A cell of a table is a pair <<num, den>>: den > 0 is the      *)
(* exact rational num/den in lowest terms, den = 0 is NaN (pandas' absent  *)
(* value).  pandas computes in IEEE doubles; the model computes the same   *)
(* expressions exactly.  A standard deviation is irrational in general, so *)
(* it is carried as its square (the variance) and every comparison against *)
(* mean +/- 2*std is made on squares.                                      *)
(*                                                                         *)
(* Tables.  A DataFrame is [index, date, cols]: index is the sequence of   *)
(* row labels (0-based, as pandas numbers them), date the date column and  *)
(* cols a function from the other column names to equally long sequences   *)
(* of cells.  Sequence positions are 1-based: position p of a freshly      *)
(* loaded table carries label p - 1.                                       *)
(***************************************************************************)
EXTENDS Integers, Sequences, FiniteSets, TLC

VARIABLES
    file,          \* data/processed/oura_merged.csv as it is on disk
    HAS_SKLEARN,   \* whether the import of scikit-learn succeeded
    pc,            \* position of main()
    df,            \* the table load_processed_data returned
    baselines,     \* result of calculate_personal_baselines
    anomalies,     \* result of detect_anomalies
    forecast,      \* locals and result of forecast_readiness
    results        \* outputs/analytics_results.json as written by main

vars == <<file, HAS_SKLEARN, pc, df, baselines, anomalies, forecast, results>>

(***************************************************************************)
(* Bounds of the model.                                                    *)
(***************************************************************************)
MaxLen == 8     \* rows of an enumerated table
MaxOdd == 2     \* readiness cells of an enumerated table that differ from the typical score

(***************************************************************************)
(* Exact rational arithmetic on cells.                                     *)
(***************************************************************************)
NaN == <<0, 0>>

isna(x) == x[2] = 0

Abs(n) == IF n < 0 THEN -n ELSE n

RECURSIVE GCD(_, _)
GCD(a, b) == IF b = 0 THEN a ELSE GCD(b, a % b)

Rat(n, d) ==
    IF d = 0 THEN NaN
    ELSE LET g == GCD(Abs(n), Abs(d))
             s == IF d < 0 THEN -1 ELSE 1
         IN  <<(s * n) \div g, (s * d) \div g>>

Num(v) == <<v, 1>>

RAdd(x, y) == IF isna(x) \/ isna(y) THEN NaN ELSE Rat(x[1] * y[2] + y[1] * x[2], x[2] * y[2])
RSub(x, y) == IF isna(x) \/ isna(y) THEN NaN ELSE Rat(x[1] * y[2] - y[1] * x[2], x[2] * y[2])
RMul(x, y) == IF isna(x) \/ isna(y) THEN NaN ELSE Rat(x[1] * y[1], x[2] * y[2])
RDivInt(x, k) == IF isna(x) \/ k = 0 THEN NaN ELSE Rat(x[1], x[2] * k)

\* IEEE comparisons: any comparison with NaN is false.
RLt(x, y) == ~isna(x) /\ ~isna(y) /\ x[1] * y[2] < y[1] * x[2]
RGt(x, y) == RLt(y, x)

(***************************************************************************)
(* pandas Series operations used by the pipeline.                          *)
(***************************************************************************)
NaNs(n) == [i \in 1..n |-> NaN]

Min2(a, b) == IF a < b THEN a ELSE b

dropna(s) == SelectSeq(s, LAMBDA x : ~isna(x))

RECURSIVE SeqSum(_)
SeqSum(s) == IF s = <<>> THEN Num(0) ELSE RAdd(Head(s), SeqSum(Tail(s)))

\* Series.mean(): NaN skipped; the mean of no value is NaN.
Series_mean(s) ==
    LET v == dropna(s)
    IN  IF Len(v) = 0 THEN NaN ELSE RDivInt(SeqSum(v), Len(v))

\* Series.std() squared: nanvar with ddof = 1 is sum((x - avg)^2) / (count - 1),
\* NaN when count - 1 <= 0.
Series_var(s) ==
    LET v   == dropna(s)
        avg == Series_mean(s)
        sq  == [i \in 1..Len(v) |-> RMul(RSub(v[i], avg), RSub(v[i], avg))]
    IN  IF Len(v) < 2 THEN NaN ELSE RDivInt(SeqSum(sq), Len(v) - 1)

\* v sorted ascending (v holds no NaN).
RECURSIVE Insert(_, _)
Insert(x, s) ==
    IF s = <<>> THEN <<x>>
    ELSE IF RLt(Head(s), x) THEN <<Head(s)>> \o Insert(x, Tail(s))
    ELSE <<x>> \o s

RECURSIVE SortCells(_)
SortCells(v) == IF v = <<>> THEN <<>> ELSE Insert(Head(v), SortCells(Tail(v)))

\* Series.median(): NaN skipped; the middle value, or the mean of the two middle ones.
Series_median(s) ==
    LET v == SortCells(dropna(s))
        n == Len(v)
    IN  IF n = 0 THEN NaN
        ELSE IF n % 2 = 1 THEN v[(n + 1) \div 2]
        ELSE RDivInt(RAdd(v[n \div 2], v[n \div 2 + 1]), 2)

\* Mutant of shift: the values wrap around (numpy.roll) instead of leaving NaN.
shift_wrap(s, k) ==
    LET n == Len(s)
    IN  [i \in 1..n |-> s[((i - 1 - k) % n) + 1]]

\* Series.shift(k): the values move k positions down (k > 0) or up (k < 0);
\* the vacated positions are NaN.
shift(s, k) ==
    LET n == Len(s)
    IN  IF k >= 0
        THEN NaNs(Min2(k, n)) \o SubSeq(s, 1, n - k)
        ELSE SubSeq(s, 1 - k, n) \o NaNs(Min2(-k, n))

\* Series.rolling(w).mean(): the sliding sum of pandas' roll_mean.  At each
\* position the new value is added and the value leaving the window removed;
\* NaN values are not counted; the result is NaN unless w (min_periods)
\* observations are in the window.
RECURSIVE RollState(_, _, _)
RollState(s, w, i) ==
    IF i = 0 THEN [sum |-> Num(0), nobs |-> 0]
    ELSE LET prev    == RollState(s, w, i - 1)
             added   == IF isna(s[i]) THEN prev
                        ELSE [sum |-> RAdd(prev.sum, s[i]), nobs |-> prev.nobs + 1]
         IN  IF i > w /\ ~isna(s[i - w])
             THEN [sum |-> RSub(added.sum, s[i - w]), nobs |-> added.nobs - 1]
             ELSE added

\* Mutant of rolling_mean: rolling(w, min_periods=1), a mean as soon as one
\* observation is in the window.
rolling_mean_min_periods_1(s, w) ==
    [i \in 1..Len(s) |->
        LET st == RollState(s, w, i)
        IN  IF st.nobs >= 1 THEN RDivInt(st.sum, st.nobs) ELSE NaN]

\* Mutant of rolling_mean: rolling(w).sum().
rolling_sum(s, w) ==
    [i \in 1..Len(s) |->
        LET st == RollState(s, w, i)
        IN  IF st.nobs >= w THEN st.sum ELSE NaN]

rolling_mean(s, w) ==
    [i \in 1..Len(s) |->
        LET st == RollState(s, w, i)
        IN  IF st.nobs >= w THEN RDivInt(st.sum, st.nobs) ELSE NaN]

(***************************************************************************)
(* DataFrames.                                                             *)
(***************************************************************************)
NoCols == [c \in {} |-> <<>>]

EmptyTable == [index |-> <<>>, date |-> <<>>, cols |-> NoCols]

NRows(t) == Len(t.index)

Positions(t) == [p \in 1..NRows(t) |-> p]

\* The rows at the positions `keep`, in that order, with their labels.
TakeRows(t, keep) ==
    [index |-> [j \in 1..Len(keep) |-> t.index[keep[j]]],
     date  |-> [j \in 1..Len(keep) |-> t.date[keep[j]]],
     cols  |-> [c \in DOMAIN t.cols |-> [j \in 1..Len(keep) |-> t.cols[c][keep[j]]]]]

\* df[mask]: boolean indexing keeps the rows whose mask is true, labels included.
BoolIndex(t, mask) == TakeRows(t, SelectSeq(Positions(t), LAMBDA p : mask[p]))

\* df.sort_values('date'): the positions in ascending date order (dates are unique).
SortByDate(t) ==
    LET n == NRows(t)
        rank(p) == Cardinality({q \in 1..n : t.date[q] < t.date[p]}) + 1
    IN  [r \in 1..n |-> CHOOSE p \in 1..n : rank(p) = r]

\* .reset_index(drop=True): labels 0 .. n-1.
reset_index(t) == [t EXCEPT !.index = [p \in 1..NRows(t) |-> p - 1]]

(***************************************************************************)
(* The merged files the pipeline is run on.                                *)
(***************************************************************************)
Typical == Num(70)

Cell == {NaN, Num(40), Num(70)}

\* Readiness columns of n rows with at most k cells that are not typical.
RECURSIVE ColumnsWith(_, _)
ColumnsWith(n, k) ==
    IF n = 0 THEN {<<>>}
    ELSE {Append(s, Typical) : s \in ColumnsWith(n - 1, k)}
         \cup (IF k = 0 THEN {}
               ELSE {Append(s, c) : s \in ColumnsWith(n - 1, k - 1), c \in Cell \ {Typical}})

ReadinessColumns(n) == ColumnsWith(n, MaxOdd)

SleepColumn(n) == [i \in 1..n |-> IF i % 4 = 2 THEN NaN ELSE Num(60 + 10 * (i % 3))]

\* The files hold one row per date; data_processor.py writes them sorted, a
\* hand-made file need not be.
AscendingDays(n) == [i \in 1..n |-> i]

DescendingWithGaps(n) == [i \in 1..n |-> 3 * (n - i) + 1]

\* Readiness alone; readiness with a sleep column that has gaps and an activity
\* column without any value; no readiness column at all.
ReadinessOnly(r) == [c \in {"readiness_score"} |-> r]

AllMetrics(r) ==
    [c \in {"readiness_score", "sleep_score", "activity_score"} |->
        IF c = "readiness_score" THEN r
        ELSE IF c = "sleep_score" THEN SleepColumn(Len(r)) ELSE NaNs(Len(r))]

NoReadiness(n) ==
    [c \in {"sleep_score", "activity_score"} |->
        IF c = "sleep_score" THEN SleepColumn(n) ELSE NaNs(n)]

\* Readiness with two columns that are no features: a numeric 'id' column and a
\* 'day' column of strings (dtype object; its cells stand for the strings).
WithIdentifiers(r) ==
    [c \in {"readiness_score", "id", "day"} |->
        IF c = "readiness_score" THEN r ELSE [i \in 1..Len(r) |-> Num(i)]]

FileOf(d, c) == [exists |-> TRUE, index |-> [i \in 1..Len(d) |-> i - 1], date |-> d, cols |-> c]

EnumeratedFilesOf(n) ==
    {FileOf(AscendingDays(n), ReadinessOnly(r)) : r \in ReadinessColumns(n)}
    \cup {FileOf(DescendingWithGaps(n), ReadinessOnly(r)) : r \in ReadinessColumns(n)}
    \cup {FileOf(AscendingDays(n), AllMetrics(r)) : r \in ColumnsWith(n, 1)}
    \cup {FileOf(AscendingDays(n), WithIdentifiers(r)) : r \in ColumnsWith(n, 1)}
    \cup {FileOf(DescendingWithGaps(n), NoReadiness(n))}

EnumeratedFiles == UNION {EnumeratedFilesOf(n) : n \in 0..MaxLen}

\* The two end-to-end scenarios of the specification: eight days with a spike,
\* and ten days of a constant score, readiness only.
SpikeScores == <<70, 72, 71, 69, 150, 70, 71, 69>>

ConstantScores == <<70, 70, 70, 70, 70, 70, 70, 70, 70, 70>>

ScenarioFile(scores) ==
    FileOf(AscendingDays(Len(scores)),
           ReadinessOnly([i \in 1..Len(scores) |-> Num(scores[i])]))

MissingFile == [exists |-> FALSE, index |-> <<>>, date |-> <<>>, cols |-> NoCols]

InputFiles ==
    EnumeratedFiles \cup {ScenarioFile(SpikeScores), ScenarioFile(ConstantScores), MissingFile}

(***************************************************************************)
(* load_processed_data                                                     *)
(***************************************************************************)
NoneTable == [isNone |-> TRUE, table |-> EmptyTable]

load_processed_data(f) ==
    IF ~f.exists THEN NoneTable
    ELSE LET t == [index |-> f.index, date |-> f.date, cols |-> f.cols]
         IN  [isNone |-> FALSE, table |-> reset_index(TakeRows(t, SortByDate(t)))]

(***************************************************************************)
(* calculate_personal_baselines                                            *)
(***************************************************************************)
BaselineColumn(metric) ==
    IF metric = "readiness" THEN "readiness_score"
    ELSE IF metric = "sleep" THEN "sleep_score" ELSE "activity_score"

calculate_personal_baselines(t) ==
    LET reported == {m \in {"readiness", "sleep", "activity"} : BaselineColumn(m) \in DOMAIN t.cols}
    IN  [m \in reported |->
            [mean   |-> Series_mean(t.cols[BaselineColumn(m)]),
             median |-> Series_median(t.cols[BaselineColumn(m)]),
             var    |-> Series_var(t.cols[BaselineColumn(m)])]]

(***************************************************************************)
(* detect_anomalies                                                        *)
(***************************************************************************)
Square(x) == RMul(x, x)

\* Mutant of BelowLow: one standard deviation instead of two.
BelowLow_one_sigma(v, mean_score, var_score) ==
    /\ RGt(RSub(mean_score, v), Num(0))
    /\ RGt(Square(RSub(mean_score, v)), var_score)

\* v < mean - 2*std, with std >= 0 given by its square: mean - v is positive
\* and its square exceeds 4*var.  False when any operand is NaN.
BelowLow(v, mean_score, var_score) ==
    /\ RGt(RSub(mean_score, v), Num(0))
    /\ RGt(Square(RSub(mean_score, v)), RMul(Num(4), var_score))

\* Mutant of AboveHigh: three standard deviations instead of two.
AboveHigh_three_sigma(v, mean_score, var_score) ==
    /\ RGt(RSub(v, mean_score), Num(0))
    /\ RGt(Square(RSub(v, mean_score)), RMul(Num(9), var_score))

\* v > mean + 2*std.
AboveHigh(v, mean_score, var_score) ==
    /\ RGt(RSub(v, mean_score), Num(0))
    /\ RGt(Square(RSub(v, mean_score)), RMul(Num(4), var_score))

NoAnomalies == [isNone |-> TRUE, table |-> EmptyTable, mean_score |-> NaN, var_score |-> NaN]

\* Mutant of detect_anomalies: the mask written as "not within the range", which
\* is true of every row when a threshold is NaN.
detect_anomalies_not_between(t) ==
    IF "readiness_score" \notin DOMAIN t.cols THEN NoAnomalies
    ELSE LET readiness  == dropna(t.cols["readiness_score"])
             mean_score == Series_mean(readiness)
             var_score  == Series_var(readiness)
             v(p)       == t.cols["readiness_score"][p]
             within(p)  == /\ ~isna(v(p)) /\ ~isna(mean_score) /\ ~isna(var_score)
                           /\ ~BelowLow(v(p), mean_score, var_score)
                           /\ ~AboveHigh(v(p), mean_score, var_score)
             mask == [p \in 1..NRows(t) |-> ~within(p)]
         IN  [isNone |-> FALSE, table |-> BoolIndex(t, mask),
              mean_score |-> mean_score, var_score |-> var_score]

\* The returned table, with the statistics the function prints (lines 173-174).
detect_anomalies(t) ==
    IF "readiness_score" \notin DOMAIN t.cols THEN NoAnomalies
    ELSE LET readiness  == dropna(t.cols["readiness_score"])
             mean_score == Series_mean(readiness)
             var_score  == Series_var(readiness)
             mask == [p \in 1..NRows(t) |->
                         \/ BelowLow(t.cols["readiness_score"][p], mean_score, var_score)
                         \/ AboveHigh(t.cols["readiness_score"][p], mean_score, var_score)]
         IN  [isNone |-> FALSE, table |-> BoolIndex(t, mask),
              mean_score |-> mean_score, var_score |-> var_score]

(***************************************************************************)
(* create_forecast_features                                                *)
(***************************************************************************)
Lags == {1, 2, 3, 7}

Windows == {3, 7}

SourceColumn(metric) == metric \o "_score"

LagName(metric, lag) == metric \o "_lag" \o ToString(lag)

RollName(metric, window) == metric \o "_roll" \o ToString(window)

\* The derived columns, each with the way it is computed.  A lag column is made
\* for readiness, sleep and activity, a rolling column for readiness and sleep,
\* each only when the source column exists.
DerivedColumns(t) ==
    {[name |-> LagName(m, k), kind |-> "lag", source |-> SourceColumn(m), param |-> k]
        : m \in {x \in {"readiness", "sleep", "activity"} : SourceColumn(x) \in DOMAIN t.cols},
          k \in Lags}
    \cup {[name |-> RollName(m, w), kind |-> "roll", source |-> SourceColumn(m), param |-> w]
        : m \in {x \in {"readiness", "sleep"} : SourceColumn(x) \in DOMAIN t.cols},
          w \in Windows}
    \cup {[name |-> "target_readiness", kind |-> "lag", source |-> "readiness_score", param |-> -1]
        : m \in {x \in {"readiness"} : SourceColumn(x) \in DOMAIN t.cols}}

DerivedValue(t, d) ==
    IF d.kind = "lag" THEN shift(t.cols[d.source], d.param)
    ELSE rolling_mean(t.cols[d.source], d.param)

create_forecast_features(t) ==
    LET derived == DerivedColumns(t)
        names   == {d.name : d \in derived}
    IN  [t EXCEPT !.cols =
            [c \in DOMAIN t.cols \cup names |->
                IF c \in names
                THEN DerivedValue(t, CHOOSE d \in derived : d.name = c)
                ELSE t.cols[c]]]

(***************************************************************************)
(* forecast_readiness                                                      *)
(***************************************************************************)
\* The column names of the model that start with 'id'.
IdPrefixed == {"id"}

\* df.columns: the date column is one of them.
Columns(t) == DOMAIN t.cols \cup {"date"}

\* Mutant of FeatureCols: readiness_score is not excluded.
FeatureCols_with_readiness(t) ==
    {c \in Columns(t) : c \notin {"date", "target_readiness"} /\ c \notin IdPrefixed}

FeatureCols(t) ==
    {c \in Columns(t) : c \notin {"date", "target_readiness", "readiness_score"}
                        /\ c \notin IdPrefixed}

\* The column names of the model whose dtype is not numeric.
NonNumeric == {"date", "day"}

\* Line 107: select_dtypes(include=[np.number]).
select_dtypes_number(cols) == {c \in cols : c \notin NonNumeric}

\* Mutant of notna: no row is dropped.
notna_keep_all(s) == [p \in 1..Len(s) |-> TRUE]

notna(s) == [p \in 1..Len(s) |-> ~isna(s[p])]

AnyNaN(s) == \E p \in 1..Len(s) : isna(s[p])

fillna(s, value) == [p \in 1..Len(s) |-> IF isna(s[p]) THEN value ELSE s[p]]

\* Mutant of MedianFill: the median is taken over the training rows only.
MedianFill_training_rows(t) ==
    [t EXCEPT !.cols =
        [c \in DOMAIN t.cols |->
            IF c \in FeatureCols(t) /\ AnyNaN(t.cols[c])
            THEN fillna(t.cols[c],
                        Series_median(SubSeq(t.cols[c], 1, NRows(t) - ((NRows(t) + 4) \div 5))))
            ELSE t.cols[c]]]

\* Lines 94-96: every feature column holding a NaN has its NaN cells replaced by
\* the column's median over the table at hand.
MedianFill(t) ==
    [t EXCEPT !.cols =
        [c \in DOMAIN t.cols |->
            IF c \in FeatureCols(t) /\ AnyNaN(t.cols[c])
            THEN fillna(t.cols[c], Series_median(t.cols[c]))
            ELSE t.cols[c]]]

\* sklearn's train_test_split(test_size=0.2, shuffle=False) on n samples:
\* n_test = ceil(0.2 * n), n_train = n - n_test; the training rows are the
\* first n_train, the test rows the rest.  (0.2 * n is a double; its ceiling
\* is that of n/5 for every n up to 14.)
TestSize == <<1, 5>>

NTest(n) == (n * TestSize[1] + TestSize[2] - 1) \div TestSize[2]

NTrain(n) == n - NTest(n)

\* Mutant of TrainPositions: the training rows are the last n_train rows.
TrainPositions_tail(n) == [j \in 1..NTrain(n) |-> NTest(n) + j]

TrainPositions(n) == [j \in 1..NTrain(n) |-> j]

TestPositions(n) == [j \in 1..NTest(n) |-> NTrain(n) + j]

\* Rows `positions` of column c.
Rows(t, c, positions) == [j \in 1..Len(positions) |-> t.cols[c][positions[j]]]

\* The variance with ddof = 0 that StandardScaler keeps in var_ (NaN skipped).
Series_var0(s) ==
    LET v   == dropna(s)
        avg == Series_mean(s)
        sq  == [i \in 1..Len(v) |-> RMul(RSub(v[i], avg), RSub(v[i], avg))]
    IN  IF Len(v) = 0 THEN NaN ELSE RDivInt(SeqSum(sq), Len(v))

\* Mutant of StandardScaler_fit: fitted on all rows of X, not on X_train.
StandardScaler_fit_all_rows(t, cols, positions) ==
    [c \in cols |-> [mean |-> Series_mean(t.cols[c]), var |-> Series_var0(t.cols[c])]]

\* Line 120: StandardScaler().fit on the rows of X given to it: mean_ and var_
\* of every column.
StandardScaler_fit(t, cols, positions) ==
    [c \in cols |-> [mean |-> Series_mean(Rows(t, c, positions)),
                     var  |-> Series_var0(Rows(t, c, positions))]]

NoScaler == [c \in {} |-> [mean |-> NaN, var |-> NaN]]

NoForecast ==
    [outcome |-> "pending", df_features |-> EmptyTable, retained |-> EmptyTable,
     feature_cols |-> {}, X_columns |-> {}, train |-> <<>>, test |-> <<>>,
     scaler |-> NoScaler]

\* outcome: "none" is `return None`, "raised" an exception leaving the function,
\* "result" the returned dictionary.  The locals are kept as far as they were
\* computed; train and test are the positions, in `retained`, of the rows of
\* X_train/y_train and X_test/y_test, X_columns the columns of X, scaler the
\* fitted StandardScaler.  accepts_nan: whether the installed RandomForestRegressor takes
\* NaN features (scikit-learn >= 1.4) or raises ValueError on them.
forecast_readiness(t, has_sklearn, accepts_nan) ==
    IF ~has_sklearn THEN [NoForecast EXCEPT !.outcome = "none"]
    ELSE
    LET features == create_forecast_features(t)
    IN  IF "target_readiness" \notin DOMAIN features.cols
        THEN [NoForecast EXCEPT !.outcome = "raised", !.df_features = features]
        ELSE
        LET retained == MedianFill(BoolIndex(features, notna(features.cols["target_readiness"])))
            n        == NRows(retained)
            fcols    == FeatureCols(retained)
            xcols    == select_dtypes_number(fcols)
            local    == [NoForecast EXCEPT !.df_features = features, !.retained = retained]
        IN  IF n = 0 THEN [local EXCEPT !.outcome = "none"]
            ELSE IF NTrain(n) = 0
            THEN [local EXCEPT !.outcome = "raised", !.feature_cols = fcols,
                                                    !.X_columns = xcols]
            ELSE
            LET split == [local EXCEPT !.feature_cols = fcols,
                                       !.X_columns = xcols,
                                       !.train = TrainPositions(n),
                                       !.test  = TestPositions(n),
                                       !.scaler = StandardScaler_fit(retained, xcols,
                                                                     TrainPositions(n))]
                nan_in_X == \E c \in xcols : AnyNaN(retained.cols[c])
            IN  IF nan_in_X /\ ~accepts_nan
                THEN [split EXCEPT !.outcome = "raised"]
                ELSE [split EXCEPT !.outcome = "result"]

(***************************************************************************)
(* main                                                                    *)
(***************************************************************************)
NoBaselines == [m \in {} |-> [mean |-> NaN, median |-> NaN, var |-> NaN]]

NoResults == [written |-> FALSE, baselines |-> NoBaselines, anomalies_count |-> 0,
              forecast_is_none |-> TRUE]

Init ==
    /\ file \in InputFiles
    /\ HAS_SKLEARN \in BOOLEAN
    /\ pc = "start"
    /\ df = NoneTable
    /\ baselines = NoBaselines
    /\ anomalies = NoAnomalies
    /\ forecast = NoForecast
    /\ results = NoResults

\* Lines 231-234: load; `return` when the file is missing.
Load ==
    /\ pc = "start"
    /\ df' = load_processed_data(file)
    /\ pc' = IF df'.isNone THEN "returned" ELSE "baselines"
    /\ UNCHANGED <<file, HAS_SKLEARN, baselines, anomalies, forecast, results>>

\* Line 242.
Baselines ==
    /\ pc = "baselines"
    /\ baselines' = calculate_personal_baselines(df.table)
    /\ pc' = "anomalies"
    /\ UNCHANGED <<file, HAS_SKLEARN, df, anomalies, forecast, results>>

\* Line 245.
Anomalies ==
    /\ pc = "anomalies"
    /\ anomalies' = detect_anomalies(df.table)
    /\ pc' = "forecast"
    /\ UNCHANGED <<file, HAS_SKLEARN, df, baselines, forecast, results>>

\* Mutant of Forecast: create_forecast_features adds its columns to the table it
\* is given instead of to a copy of it.
Forecast_without_copy ==
    /\ pc = "forecast"
    /\ \E accepts_nan \in BOOLEAN :
          forecast' = forecast_readiness(df.table, HAS_SKLEARN, accepts_nan)
    /\ pc' = IF forecast'.outcome = "raised" THEN "raised" ELSE "save"
    /\ df' = IF HAS_SKLEARN THEN [df EXCEPT !.table = create_forecast_features(df.table)]
                            ELSE df
    /\ UNCHANGED <<file, HAS_SKLEARN, baselines, anomalies, results>>

\* Line 248: main has no try/except, an exception raised inside
\* forecast_readiness ends the run.
Forecast ==
    /\ pc = "forecast"
    /\ \E accepts_nan \in BOOLEAN :
          forecast' = forecast_readiness(df.table, HAS_SKLEARN, accepts_nan)
    /\ pc' = IF forecast'.outcome = "raised" THEN "raised" ELSE "save"
    /\ UNCHANGED <<file, HAS_SKLEARN, df, baselines, anomalies, results>>

\* Mutant of Save: the record is written as soon as the anomalies are known.
Save_before_forecast ==
    /\ pc \in {"forecast", "save"}
    /\ results' = [written |-> TRUE,
                   baselines |-> baselines,
                   anomalies_count |-> IF anomalies.isNone THEN 0 ELSE NRows(anomalies.table),
                   forecast_is_none |-> forecast.outcome # "result"]
    /\ pc' = "done"
    /\ UNCHANGED <<file, HAS_SKLEARN, df, baselines, anomalies, forecast>>

\* Lines 257-267.
Save ==
    /\ pc = "save"
    /\ results' = [written |-> TRUE,
                   baselines |-> baselines,
                   anomalies_count |-> IF anomalies.isNone THEN 0 ELSE NRows(anomalies.table),
                   forecast_is_none |-> forecast.outcome # "result"]
    /\ pc' = "done"
    /\ UNCHANGED <<file, HAS_SKLEARN, df, baselines, anomalies, forecast>>

Next == Load \/ Baselines \/ Anomalies \/ Forecast \/ Save

Spec == Init /\ [][Next]_vars

(***************************************************************************)
(* Properties.                                                             *)
(***************************************************************************)
AfterAnomalies == pc \in {"forecast", "save", "done", "raised"}

HasReadiness == ~df.isNone /\ "readiness_score" \in DOMAIN df.table.cols

Readiness == df.table.cols["readiness_score"]

\* The input scores are whole numbers: the sum of the k-th powers (k = 0, 1, 2)
\* of the present values among the first i cells.
RECURSIVE PowerSum(_, _, _)
PowerSum(s, k, i) ==
    IF i = 0 THEN 0
    ELSE PowerSum(s, k, i - 1)
         + (IF isna(s[i]) THEN 0
            ELSE IF k = 0 THEN 1 ELSE IF k = 1 THEN s[i][1] ELSE s[i][1] * s[i][1])

Count(s) == PowerSum(s, 0, Len(s))

\* |s[p] - mean| > 2*std over the present values of s, with the sample (n-1)
\* standard deviation, cleared of fractions and roots:
\* (n*v - S)^2 * (n - 1) > 4 * n * (n*Q - S^2).
OutsideTwoSigma(s, p) ==
    LET n == Count(s)
        S == PowerSum(s, 1, Len(s))
        Q == PowerSum(s, 2, Len(s))
        d == n * s[p][1] - S
    IN  /\ ~isna(s[p])
        /\ n >= 2
        /\ d * d * (n - 1) > 4 * n * (n * Q - S * S)

FlaggedLabels == {anomalies.table.index[j] : j \in 1..NRows(anomalies.table)}

\* C1: whenever the table has a readiness_score column, the rows detect_anomalies
\* returns are exactly the rows whose readiness value is present and more than
\* two sample standard deviations away from the mean of the present values; the
\* rows are returned once each, in table order, with their values.
C1_ExactlyTheOutliers ==
    (AfterAnomalies /\ HasReadiness) =>
        /\ ~anomalies.isNone
        /\ \A p \in 1..NRows(df.table) :
              (df.table.index[p] \in FlaggedLabels) <=> OutsideTwoSigma(Readiness, p)
        /\ \A j \in 1..NRows(anomalies.table) :
              /\ anomalies.table.cols["readiness_score"][j]
                    = Readiness[anomalies.table.index[j] + 1]
              /\ anomalies.table.date[j] = df.table.date[anomalies.table.index[j] + 1]
              /\ j > 1 => anomalies.table.index[j - 1] < anomalies.table.index[j]

\* A table with an absent value, a flagged row and an unflagged present row.
C1_Witness ==
    /\ pc = "forecast" /\ HasReadiness
    /\ NRows(anomalies.table) >= 1
    /\ \E p \in 1..NRows(df.table) : isna(Readiness[p])
    /\ \E p \in 1..NRows(df.table) :
          ~isna(Readiness[p]) /\ df.table.index[p] \notin FlaggedLabels

\* C8: with a readiness column holding fewer than two present values,
\* detect_anomalies returns a table without rows (and returns: the run goes on).
C8_FewObservationsNoFlags ==
    (AfterAnomalies /\ HasReadiness /\ Count(Readiness) < 2) =>
        ~anomalies.isNone /\ NRows(anomalies.table) = 0

\* A table with rows and exactly one present readiness value.
C8_Witness ==
    /\ pc = "forecast" /\ HasReadiness
    /\ NRows(df.table) >= 2 /\ Count(Readiness) = 1
    /\ ~anomalies.isNone /\ NRows(anomalies.table) = 0

IsSpikeRun == file = ScenarioFile(SpikeScores)

SpikeFlagsOnly150 ==
    /\ ~anomalies.isNone
    /\ NRows(anomalies.table) = 1
    /\ anomalies.table.cols["readiness_score"][1] = Num(150)
    /\ anomalies.table.index[1] = 4

\* lo <= x < hi for rationals given as pairs.
Within(x, lo, hi) == ~RLt(x, lo) /\ RLt(x, hi)

\* C9 as stated: on the eight-day spike input exactly the row with 150 is
\* flagged, the mean being about 82.75 (82.75 to two decimals) and the standard
\* deviation about 28 (28 to the unit).
C9_AsStated ==
    (AfterAnomalies /\ IsSpikeRun) =>
        /\ SpikeFlagsOnly150
        /\ Within(anomalies.mean_score, <<82745, 1000>>, <<82755, 1000>>)
        /\ Within(anomalies.var_score, Square(<<55, 2>>), Square(<<57, 2>>))

\* C9 amended: on the eight-day spike input exactly the row with 150 is flagged;
\* the mean is 80.25 and the sample standard deviation about 28 (its square is
\* 11135/14).
C9_SpikeFlagged ==
    (AfterAnomalies /\ IsSpikeRun) =>
        /\ SpikeFlagsOnly150
        /\ anomalies.mean_score = <<321, 4>>
        /\ anomalies.var_score = <<11135, 14>>
        /\ Within(anomalies.var_score, Square(<<55, 2>>), Square(<<57, 2>>))

C9_Witness == pc = "forecast" /\ IsSpikeRun /\ SpikeFlagsOnly150

\* forecast_readiness went past create_forecast_features (line 84).
FeaturesMade == HAS_SKLEARN /\ forecast.outcome # "pending"

Features == forecast.df_features

Retained == forecast.retained

\* C2: for every lag k in {1,2,3,7} and every row position p of the date-sorted
\* table, the lag-k column of a metric holds the metric's value k rows earlier,
\* whatever the dates of the rows are, and NaN when there is no such row (or
\* when that value is NaN); the rows and their dates are those of the input.
C2_LagIsRowOffset ==
    FeaturesMade =>
        /\ Features.index = df.table.index
        /\ Features.date = df.table.date
        /\ \A m \in {"readiness", "sleep", "activity"} :
              SourceColumn(m) \in DOMAIN df.table.cols =>
                 \A k \in Lags :
                    /\ LagName(m, k) \in DOMAIN Features.cols
                    /\ \A p \in 1..NRows(df.table) :
                          Features.cols[LagName(m, k)][p]
                             = IF p - k >= 1 THEN df.table.cols[SourceColumn(m)][p - k] ELSE NaN

\* Dates with gaps, a lag-7 value that is present, and a lag-1 value that is
\* absent because the row before holds no value.
C2_Witness ==
    /\ FeaturesMade /\ HasReadiness
    /\ NRows(df.table) >= 8
    /\ df.table.date[2] - df.table.date[1] > 1
    /\ ~isna(Features.cols["readiness_lag7"][8])
    /\ \E p \in 2..NRows(df.table) : isna(Features.cols["readiness_lag1"][p])

RECURSIVE WindowSum(_, _, _)
WindowSum(s, from, to) ==
    IF from > to THEN 0 ELSE s[to][1] + WindowSum(s, from, to - 1)

WindowFull(s, p, w) == p - w + 1 >= 1 /\ \A q \in (p - w + 1)..p : ~isna(s[q])

\* C3: for every window w in {3,7} and every row position p, the rolling-w
\* column of readiness and of sleep is the arithmetic mean of the metric over
\* the rows p-w+1 .. p when these rows exist and all hold a value, and NaN
\* otherwise.
C3_RollingIsWindowMean ==
    FeaturesMade =>
        \A m \in {"readiness", "sleep"} :
           SourceColumn(m) \in DOMAIN df.table.cols =>
              \A w \in Windows :
                 /\ RollName(m, w) \in DOMAIN Features.cols
                 /\ \A p \in 1..NRows(df.table) :
                       LET src == df.table.cols[SourceColumn(m)]
                       IN  Features.cols[RollName(m, w)][p]
                              = IF WindowFull(src, p, w)
                                THEN Rat(WindowSum(src, p - w + 1, p), w)
                                ELSE NaN

\* A 7-row mean that is defined and is no whole number, a 3-row mean that is
\* absent for a NaN in its window although three rows exist, and a later 3-row
\* mean that is defined again.
C3_Witness ==
    /\ FeaturesMade /\ HasReadiness
    /\ \E p \in 7..NRows(df.table) :
          /\ ~isna(Features.cols["readiness_roll7"][p])
          /\ Features.cols["readiness_roll7"][p][2] > 1
    /\ \E p \in 3..NRows(df.table), q \in 3..NRows(df.table) :
          /\ p < q
          /\ isna(Features.cols["readiness_roll3"][p])
          /\ ~isna(Features.cols["readiness_roll3"][q])

RetainedLabels == {Retained.index[j] : j \in 1..NRows(Retained)}

\* C4: the target of a row is the readiness of the next row, so the last row has
\* no target; the rows forecast_readiness keeps are exactly the rows with a
\* target, and the training and evaluation rows are taken among them.
C4_TargetIsNextDay ==
    (FeaturesMade /\ HasReadiness) =>
        LET n      == NRows(df.table)
            target == Features.cols["target_readiness"]
        IN  /\ \A p \in 1..n : target[p] = IF p < n THEN Readiness[p + 1] ELSE NaN
            /\ n >= 1 => isna(target[n]) /\ df.table.index[n] \notin RetainedLabels
            /\ \A p \in 1..n : (df.table.index[p] \in RetainedLabels) <=> ~isna(target[p])
            /\ \A j \in 1..NRows(Retained) :
                  /\ ~isna(Retained.cols["target_readiness"][j])
                  /\ Retained.cols["target_readiness"][j] = target[Retained.index[j] + 1]
            /\ \A j \in 1..Len(forecast.train) : forecast.train[j] \in 1..NRows(Retained)
            /\ \A j \in 1..Len(forecast.test) : forecast.test[j] \in 1..NRows(Retained)

\* A forecast that was made, from a table in which a row other than the last
\* has no target.
C4_Witness ==
    /\ pc = "save" /\ HasReadiness /\ forecast.outcome = "result"
    /\ NRows(Retained) >= 2
    /\ NRows(Retained) < NRows(df.table) - 1

SplitMade == forecast.train # <<>> \/ forecast.test # <<>>

\* C5: the training rows are a prefix and the evaluation rows the remaining
\* suffix of the kept rows, which are in date order: the two partitions are
\* disjoint, cover the kept rows, and every training date is before every
\* evaluation date.
C5_ChronologicalSplit ==
    SplitMade =>
        LET n == NRows(Retained)
            k == Len(forecast.train)
        IN  /\ k >= 1 /\ n - k >= 1
            /\ forecast.train = [j \in 1..k |-> j]
            /\ forecast.test = [j \in 1..(n - k) |-> k + j]
            /\ \A j \in 1..(n - 1) : Retained.date[j] < Retained.date[j + 1]
            /\ \A a \in 1..Len(forecast.train), b \in 1..Len(forecast.test) :
                  Retained.date[forecast.train[a]] < Retained.date[forecast.test[b]]

\* A forecast made from a file whose rows were not in date order, with at
\* least two rows in each partition.
C5_Witness ==
    /\ forecast.outcome = "result"
    /\ Len(forecast.train) >= 2 /\ Len(forecast.test) >= 2
    /\ file.date[1] > file.date[2]

\* C6: when fewer than two rows are kept after the rows without target are
\* dropped, forecast_readiness returns None: it raises nothing and makes no
\* split.
C6_FewRowsReturnNone ==
    (FeaturesMade /\ HasReadiness /\ NRows(Retained) < 2) =>
        forecast.outcome = "none" /\ ~SplitMade

\* C7: when fewer than two rows are kept for the forecast, the run goes on to
\* the save step, and what it saves holds the baselines and the anomaly count
\* of the earlier stages, with no forecast.
C7_RunSurvivesForecast ==
    (FeaturesMade /\ HasReadiness /\ NRows(Retained) < 2) =>
        /\ pc \in {"save", "done"}
        /\ pc = "done" =>
              /\ results.written
              /\ results.baselines = baselines
              /\ results.anomalies_count = NRows(anomalies.table)
              /\ results.forecast_is_none

IsConstantRun == file = ScenarioFile(ConstantScores)

ReadinessDerived ==
    {LagName("readiness", k) : k \in Lags} \cup {RollName("readiness", w) : w \in Windows}

\* C10: on ten consecutive days of readiness 70 and no other metric, the
\* readiness baseline has standard deviation 0, detect_anomalies returns no
\* row, and every readiness lag and rolling column is 70 wherever it is not NaN.
C10_ConstantSeries ==
    (IsConstantRun /\ FeaturesMade) =>
        /\ baselines["readiness"].var = Num(0)
        /\ ~anomalies.isNone /\ NRows(anomalies.table) = 0
        /\ \A c \in ReadinessDerived :
              /\ c \in DOMAIN Features.cols
              /\ \A p \in 1..NRows(df.table) :
                    isna(Features.cols[c][p]) \/ Features.cols[c][p] = Num(70)

\* The run on the constant series, with the longest lag and the longest window defined.
C10_Witness ==
    /\ IsConstantRun /\ FeaturesMade
    /\ Features.cols["readiness_lag7"][8] = Num(70)
    /\ Features.cols["readiness_roll7"][7] = Num(70)
    /\ Features.cols["readiness_roll3"][10] = Num(70)

\* The cell of column c that row j of the kept table had before the fill.
BeforeFill(c, j) == Features.cols[c][Retained.index[j] + 1]

KeptBeforeFill(c) == [j \in 1..NRows(Retained) |-> BeforeFill(c, j)]

\* The k-th smallest of the present values of s.
OrderStat(s, k) ==
    LET v == dropna(s)
    IN  CHOOSE x \in {v[i] : i \in 1..Len(v)} :
           /\ Cardinality({i \in 1..Len(v) : RLt(v[i], x)}) < k
           /\ Cardinality({i \in 1..Len(v) : ~RLt(x, v[i])}) >= k

\* The median of the present values of s by rank; NaN when there is none.
MedianByRank(s) ==
    LET n == Len(dropna(s))
    IN  IF n = 0 THEN NaN
        ELSE IF n % 2 = 1 THEN OrderStat(s, (n + 1) \div 2)
        ELSE RDivInt(RAdd(OrderStat(s, n \div 2), OrderStat(s, n \div 2 + 1)), 2)

IsFeatureColumn(c) == c \notin {"date", "target_readiness", "readiness_score", "id"}

\* C11: in the kept table every NaN cell of a feature column is replaced by the
\* median of that column over all kept rows, training and evaluation rows
\* alike (NaN when the column has no value at all); every cell that held a
\* value, every column without NaN, the target and readiness_score are as
\* before.
C11_MedianOverAllKeptRows ==
    (FeaturesMade /\ HasReadiness) =>
        /\ DOMAIN Retained.cols = DOMAIN Features.cols
        /\ \A c \in DOMAIN Retained.cols :
              \A j \in 1..NRows(Retained) :
                 Retained.cols[c][j]
                    = IF IsFeatureColumn(c) /\ isna(BeforeFill(c, j))
                      THEN MedianByRank(KeptBeforeFill(c))
                      ELSE BeforeFill(c, j)

\* A forecast in which a filled cell of a training row holds a median that is
\* not the median of the training rows.
C11_Witness ==
    /\ forecast.outcome = "result"
    /\ \E j \in 1..Len(forecast.train) :
          /\ isna(BeforeFill("readiness_lag1", j))
          /\ ~isna(Retained.cols["readiness_lag1"][j])
          /\ Retained.cols["readiness_lag1"][j]
                # MedianByRank(SubSeq(KeptBeforeFill("readiness_lag1"), 1, Len(forecast.train)))

AfterBaselines == pc \in {"anomalies", "forecast", "save", "done", "raised"}

AfterForecast == pc \in {"save", "done", "raised"}

HasValues(column) == column \in DOMAIN df.table.cols /\ Count(df.table.cols[column]) >= 1

\* The sample variance of the present (whole-number) values of s, from their
\* power sums: (n*Q - S^2) / (n*(n-1)); NaN for fewer than two values.
SampleVariance(s) ==
    LET n == Count(s)
        S == PowerSum(s, 1, Len(s))
        Q == PowerSum(s, 2, Len(s))
    IN  IF n < 2 THEN NaN ELSE Rat(n * Q - S * S, n * (n - 1))

\* C12: calculate_personal_baselines has an entry for exactly those of
\* readiness, sleep and activity that have at least one present value (none for
\* a missing column, none for a column without any value), and the entry holds
\* the mean, the median and the sample (n-1) standard deviation of the present
\* values.
C12_BaselinesOfPresentMetrics ==
    AfterBaselines =>
        \A m \in {"readiness", "sleep", "activity"} :
           /\ (m \in DOMAIN baselines) <=> HasValues(SourceColumn(m))
           /\ m \in DOMAIN baselines =>
                 LET s == df.table.cols[SourceColumn(m)]
                 IN  /\ baselines[m].mean = Rat(PowerSum(s, 1, Len(s)), Count(s))
                     /\ baselines[m].median = MedianByRank(s)
                     /\ baselines[m].var = SampleVariance(s)

\* C13: without a readiness_score column the baselines have no readiness entry,
\* detect_anomalies returns None, forecast_readiness returns None, and no
\* exception ends the run.
C13_MissingReadinessIsSkipped ==
    (AfterForecast /\ ~df.isNone /\ ~HasReadiness) =>
        /\ "readiness" \notin DOMAIN baselines
        /\ anomalies.isNone
        /\ forecast.outcome = "none"
        /\ pc # "raised"

\* Least and greatest present (whole-number) value of s.
MinValue(s) == CHOOSE x \in {s[i][1] : i \in {j \in 1..Len(s) : ~isna(s[j])}} :
                  \A i \in 1..Len(s) : isna(s[i]) \/ x <= s[i][1]

MaxValue(s) == CHOOSE x \in {s[i][1] : i \in {j \in 1..Len(s) : ~isna(s[j])}} :
                  \A i \in 1..Len(s) : isna(s[i]) \/ x >= s[i][1]

\* C16: for every metric in the baselines the mean is a number between the
\* least and the greatest present value of the metric.
C16_MeanWithinRange ==
    AfterBaselines =>
        \A m \in DOMAIN baselines :
           LET s == df.table.cols[SourceColumn(m)]
           IN  /\ ~isna(baselines[m].mean)
               /\ Count(s) >= 1
               /\ ~RLt(baselines[m].mean, Num(MinValue(s)))
               /\ ~RGt(baselines[m].mean, Num(MaxValue(s)))

\* C19: no column of X, the feature columns given to the split, the scaler and
\* the model, holds a NaN after the fill.
C19_NoNaNAfterFill ==
    SplitMade => \A c \in forecast.X_columns : ~AnyNaN(Retained.cols[c])

\* X was selected (line 107): at least one row is kept.
XSelected == FeaturesMade /\ HasReadiness /\ NRows(Retained) >= 1

\* C14: the columns of X never include date, readiness_score or the target,
\* and they are all the other numeric columns of the feature table whose name
\* does not start with 'id' (of the columns of the model, 'id' starts with 'id'
\* and 'day' is not numeric), lag and rolling columns included.
C14_FeatureSet ==
    XSelected =>
        /\ forecast.X_columns \cap {"date", "readiness_score", "target_readiness"} = {}
        /\ forecast.X_columns
              = DOMAIN Features.cols \ {"readiness_score", "target_readiness", "id", "day"}
        /\ ReadinessDerived \subseteq forecast.X_columns

\* A forecast on a table that has an 'id' and a non-numeric column.
C14_Witness ==
    /\ forecast.outcome = "result"
    /\ {"id", "day"} \subseteq DOMAIN Features.cols
    /\ forecast.X_columns \cap {"id", "day"} = {}
    /\ "readiness_roll7" \in forecast.X_columns

\* The runs used to compare two forecasts: scikit-learn installed, a file with
\* the readiness column alone, its rows in date order.
InitReadinessOnly ==
    /\ file \in {MissingFile}
                 \cup UNION {{FileOf(AscendingDays(n), ReadinessOnly(r)) : r \in ReadinessColumns(n)}
                                : n \in 0..MaxLen}
    /\ HAS_SKLEARN = TRUE
    /\ pc = "start"
    /\ df = NoneTable
    /\ baselines = NoBaselines
    /\ anomalies = NoAnomalies
    /\ forecast = NoForecast
    /\ results = NoResults

SpecReadinessOnly == InitReadinessOnly /\ [][Next]_vars

\* The run on the table that differs from the loaded one in one readiness cell.
OtherTable(p, c) == [df.table EXCEPT !.cols["readiness_score"][p] = c]

OtherRun(p, c) == forecast_readiness(OtherTable(p, c), TRUE, TRUE)

\* The rows of X_train of a run, column by column.
TrainingRows(f) == [c \in f.X_columns |-> Rows(f.retained, c, f.train)]

EvaluationRows(f) == [c \in f.X_columns |-> Rows(f.retained, c, f.test)]

\* The last three rows: a change in an earlier row changes a training row.
LateRows == {p \in 1..NRows(df.table) : p >= NRows(df.table) - 2}

\* C15: the scaler's parameters are those of the training rows alone: a second
\* run, on a table that differs from this one in one readiness cell of its last
\* rows, whose training rows of X are the same as here has the same mean_ and
\* var_, whatever its evaluation rows are.
C15_ScalerFromTrainingRows ==
    (SplitMade /\ pc # "done") =>
        \A p \in LateRows, c \in Cell :
           LET other == OtherRun(p, c)
           IN  (other.train # <<>> /\ TrainingRows(other) = TrainingRows(forecast))
                  => other.scaler = forecast.scaler

\* A second run with the same training rows and other evaluation rows.
C15_Witness ==
    /\ forecast.outcome = "result" /\ pc = "save"
    /\ \E p \in LateRows, c \in Cell :
          LET other == OtherRun(p, c)
          IN  /\ other.train # <<>>
              /\ TrainingRows(other) = TrainingRows(forecast)
              /\ EvaluationRows(other) # EvaluationRows(forecast)
              /\ Len(other.test) = Len(forecast.test)

\* The position of main: the stages in the order of lines 242, 245, 248, then
\* the write of the record.
Stage ==
    [start |-> 0, baselines |-> 1, anomalies |-> 2, forecast |-> 3, save |-> 4,
     done |-> 5, returned |-> 6, raised |-> 7]

\* What a state holds of a stage that has not run yet.
NotRun ==
    [baselines |-> baselines = NoBaselines,
     anomalies |-> anomalies = NoAnomalies,
     forecast  |-> forecast = NoForecast]

StagesInOrder ==
    /\ pc \in {"start", "baselines", "returned"} => NotRun.baselines
    /\ pc \in {"start", "baselines", "anomalies", "returned"} => NotRun.anomalies
    /\ pc \in {"start", "baselines", "anomalies", "forecast", "returned"}
          => (NotRun.forecast /\ ~results.written)
    /\ pc \in {"save", "done"} => forecast.outcome \in {"none", "result"}
    /\ pc = "raised" => (forecast.outcome = "raised" /\ ~results.written)
    /\ pc = "save" => ~results.written
    /\ results.written => pc = "done"
    /\ pc = "returned" <=> (df.isNone /\ pc # "start")

\* One step of main: a stage is the only thing that changes its result, it
\* changes it in the step that leaves its position for the next one, and the
\* record is written in the step from "save", once.
OneStageAtATime ==
    /\ pc \in {"returned", "raised", "done"} => UNCHANGED vars
    /\ pc' # pc =>
          \/ Stage[pc] <= 4 /\ Stage[pc'] = Stage[pc] + 1
          \/ pc = "start" /\ pc' = "returned"
          \/ pc = "forecast" /\ pc' = "raised"
    /\ baselines' # baselines => (pc = "baselines" /\ pc' = "anomalies")
    /\ anomalies' # anomalies => (pc = "anomalies" /\ pc' = "forecast")
    /\ forecast' # forecast => (pc = "forecast" /\ pc' \in {"save", "raised"})
    /\ results' # results => (pc = "save" /\ pc' = "done" /\ ~results.written)

\* C17: main runs baselines, anomaly detection and forecasting one after the
\* other in that order, each finished before the next starts; the results record
\* is written at most once, after the three stages returned; when the load
\* fails no stage runs and nothing is written.
C17_StagesInSequence == []StagesInOrder /\ [][OneStageAtATime]_vars

\* A finished run with a detected anomaly, a fitted model and the record written.
C17_Witness ==
    /\ pc = "done" /\ results.written
    /\ forecast.outcome = "result"
    /\ ~anomalies.isNone /\ NRows(anomalies.table) >= 1
    /\ "readiness" \in DOMAIN results.baselines

\* The table load_processed_data returned for this run.
Loaded == load_processed_data(file)

\* C18: no stage modifies the table it is given: once loaded, the table of main
\* stays the loaded one through every stage, and each stage's result is the one
\* the stage gives on the loaded table, whichever stages ran before it (for the
\* forecast: with a forest that takes NaN unless the call raised).
C18_InputTableUnchanged ==
    (pc \notin {"start", "returned"}) =>
        /\ df = Loaded
        /\ LET loaded == Loaded.table
           IN  /\ AfterBaselines => baselines = calculate_personal_baselines(loaded)
               /\ AfterAnomalies => anomalies = detect_anomalies(loaded)
               /\ pc \in {"save", "raised"} =>
                     forecast = forecast_readiness(loaded, HAS_SKLEARN,
                                                   forecast.outcome # "raised")

\* The three stages ran, the feature columns were made on a copy: the table of
\* main has none of them.
C18_Witness ==
    /\ pc = "save" /\ forecast.outcome = "result"
    /\ ~anomalies.isNone /\ NRows(anomalies.table) >= 1
    /\ "readiness_lag1" \in DOMAIN forecast.df_features.cols
    /\ "readiness_lag1" \notin DOMAIN df.table.cols

====
